---- MODULE Spec2Model ----
(***************************************************************************)
(* A model of the React-Native bank app: the home screen (single-account   *)
(* src/components/HomePage.tsx and multi-account src/unnamed/part_000),    *)
(* the add form (src/app/add-transaction.tsx) and the edit form            *)
(* (src/app/edit-transaction.tsx), all sharing the one AsyncStorage key    *)
(* "transactions".                                                         *)
(*                                                                         *)
(* Every `await` of the code is a step boundary: a handler runs from its   *)
(* start to its first storage call in one action, and each storage call's  *)
(* effect together with the code that follows it, up to the next storage   *)
(* call, is one action.  Amounts are integers in cents.                    *)
(***************************************************************************)
EXTENDS Integers, Sequences, FiniteSets, TLC

VARIABLES
  variant,             \* which home screen is mounted: "single" | "multi"
  store,               \* the value under "transactions": None or Some(list)
  transactions,        \* home: useState transactions
  balances,            \* home: accountData.balance / accounts[i].balance
  selectedAccountId,   \* multi home: useState selectedAccountId
  selectedTransaction, \* home: useState selectedTransaction (None or Some)
  showActionModal,     \* home: useState showActionModal
  loadsReading,        \* loadTransactions calls awaiting getItem
  loadsSeeding,        \* loadTransactions calls awaiting setItem(defaults)
  deleteTasks,         \* deleteTransaction calls awaiting setItem
  screen,              \* the screen on top: "home" | "add" | "edit"
  alerts,              \* queue of Alert.alert dialogs not yet dismissed
  addForm,             \* add screen: transactionType, merchant, amount, selectedCategory
  addTasks,            \* add handleSubmit calls in flight
  editForm,            \* edit screen: transaction, transactionType, merchant, amount, ...
  editTasks,           \* edit handleSubmit calls in flight
  now,                 \* the reading Date.now() returns
  used                 \* how many times each bounded input has been used

vars == <<variant, store, transactions, balances, selectedAccountId,
          selectedTransaction, showActionModal, loadsReading, loadsSeeding,
          deleteTasks, screen, alerts, addForm, addTasks, editForm, editTasks,
          now, used>>

(***************************************************************************)
(* Bounds of the model.                                                    *)
(***************************************************************************)
MaxNav == 2        \* form screens opened
MaxOps == 2        \* mutations started: valid submits and delete confirmations
MaxFails == 1      \* storage calls that fail
MaxTicks == 1      \* distinct later readings of the clock
ClockStart == 30600000  \* first clock reading, in ms (8:30 of the day)

(***************************************************************************)
(* Optional values: null is None, a value x is Some(x).                    *)
(***************************************************************************)
None == <<>>
Some(x) == <<x>>
Get(o) == o[1]

Undefined == "undefined"   \* an absent accountId field

INITIAL_BALANCE == 0

Txn(i, m, a, d, ic, acc) ==
  [id |-> i, merchant |-> m, amount |-> a, date |-> d, icon |-> ic, accountId |-> acc]

defaultTransactionsSingle ==
  << Txn(1, <<"Coffee", " ", "Shop">>, -450, "Today, 8:30 AM", "cafe-outline", Undefined),
     Txn(2, <<"Supermarket">>, -6520, "Yesterday, 6:15 PM", "cart-outline", Undefined),
     Txn(3, <<"Salary", " ", "Deposit">>, 250000, "Mar 25, 2025", "cash-outline", Undefined),
     Txn(4, <<"Electricity", " ", "Bill">>, -8575, "Mar 23, 2025", "flash-outline", Undefined),
     Txn(5, <<"Online", " ", "Store">>, -12999, "Mar 20, 2025", "bag-outline", Undefined) >>

defaultTransactionsMulti ==
  << Txn(1, <<"Coffee", " ", "Shop">>, -450, "Today, 8:30 AM", "cafe-outline", "chequing"),
     Txn(2, <<"Supermarket">>, -6520, "Yesterday, 6:15 PM", "cart-outline", "chequing"),
     Txn(3, <<"Salary", " ", "Deposit">>, 250000, "Mar 25, 2025", "cash-outline", "chequing"),
     Txn(4, <<"Electricity", " ", "Bill">>, -8575, "Mar 23, 2025", "flash-outline", "chequing"),
     Txn(5, <<"Interest", " ", "Payment">>, 2550, "Mar 20, 2025", "trending-up-outline", "savings"),
     Txn(6, <<"Savings", " ", "Deposit">>, 50000, "Mar 15, 2025", "cash-outline", "savings") >>

defaultTransactions ==
  IF variant = "single" THEN defaultTransactionsSingle ELSE defaultTransactionsMulti

\* The ids of the accounts whose balance the home screen keeps.
AccountIds == IF variant = "single" THEN {"account"} ELSE {"chequing", "savings"}

(***************************************************************************)
(* Array helpers.                                                          *)
(***************************************************************************)
\* Array.prototype.filter with the predicate  t.id !== id
FilterOutId(list, id) == SelectSeq(list, LAMBDA t : t.id # id)

\* Array.prototype.filter with the predicate  t.accountId === acc
FilterAccount(list, acc) == SelectSeq(list, LAMBDA t : t.accountId = acc)

\* a reduce that adds the magnitudes of the amounts
RECURSIVE ReduceAmountOfMagnitudes(_, _)
ReduceAmountOfMagnitudes(list, init) ==
  IF list = <<>> THEN init
  ELSE ReduceAmountOfMagnitudes(Tail(list),
         init + (IF Head(list).amount < 0 THEN -Head(list).amount ELSE Head(list).amount))

\* Array.prototype.reduce((sum, t) => sum + t.amount, init), left to right
RECURSIVE ReduceAmount(_, _)
ReduceAmount(list, init) ==
  IF list = <<>> THEN init
  ELSE ReduceAmount(Tail(list), init + Head(list).amount)

\* a projection that gives every account the sum of all the transactions
updateBalancesSummingAll(transArray) ==
  [a \in AccountIds |-> ReduceAmount(transArray, INITIAL_BALANCE)]

\* updateBalance (single) / updateBalances (multi): the balances set from transArray
updateBalances(transArray) ==
  IF variant = "single"
  THEN [a \in AccountIds |-> ReduceAmount(transArray, INITIAL_BALANCE)]
  ELSE [a \in AccountIds |->
          ReduceAmount(FilterAccount(transArray, a), INITIAL_BALANCE)]

\* a home that lists every transaction whatever the selected account
filteredTransactionsOfAll == transactions

\* the multi home's filteredTransactions; the single home lists every transaction
filteredTransactions ==
  IF variant = "single" THEN transactions
  ELSE FilterAccount(transactions, selectedAccountId)

(***************************************************************************)
(* Text.  A text is a sequence of tokens; a token is a single space " " or *)
(* a piece without white space (a character of an amount, a word of a      *)
(* merchant name).                                                         *)
(***************************************************************************)
\* String.prototype.trim
RECURSIVE TrimStart(_)
TrimStart(text) ==
  IF text # <<>> /\ Head(text) = " " THEN TrimStart(Tail(text)) ELSE text

RECURSIVE TrimEnd(_)
TrimEnd(text) ==
  IF text # <<>> /\ text[Len(text)] = " "
  THEN TrimEnd(SubSeq(text, 1, Len(text) - 1)) ELSE text

Trim(text) == TrimEnd(TrimStart(text))

Digits == <<"0", "1", "2", "3", "4", "5", "6", "7", "8", "9">>
IsDigit(c) == \E d \in 1..10 : Digits[d] = c
DigitValue(c) == (CHOOSE d \in 1..10 : Digits[d] = c) - 1

\* the longest prefix of digits
RECURSIVE DigitPrefix(_)
DigitPrefix(text) ==
  IF text # <<>> /\ IsDigit(Head(text))
  THEN <<Head(text)>> \o DigitPrefix(Tail(text)) ELSE <<>>

\* the value of a sequence of digits
RECURSIVE DigitsValue(_)
DigitsValue(ds) ==
  IF ds = <<>> THEN 0
  ELSE 10 * DigitsValue(SubSeq(ds, 1, Len(ds) - 1)) + DigitValue(ds[Len(ds)])

\* the decimal digits of n >= 0
RECURSIVE DigitsOf(_)
DigitsOf(n) ==
  IF n < 10 THEN <<Digits[n + 1]>> ELSE DigitsOf(n \div 10) \o <<Digits[(n % 10) + 1]>>

Abs(n) == IF n < 0 THEN -n ELSE n

\* parseFloat: leading white space, an optional sign, digits, an optional
\* fraction; whatever follows is ignored; NaN when no digit was read.  The
\* value is in cents: fraction digits after the second are dropped (the
\* inputs of the model have at most two).  Exponents are not modelled.
NaN == [nan |-> TRUE, cents |-> 0]
Num(c) == [nan |-> FALSE, cents |-> c]

parseFloat(text) ==
  LET t == TrimStart(text)
      signed == t # <<>> /\ Head(t) \in {"-", "+"}
      negative == t # <<>> /\ Head(t) = "-"
      u == IF signed THEN Tail(t) ELSE t
      ip == DigitPrefix(u)
      rest == SubSeq(u, Len(ip) + 1, Len(u))
      fp == IF rest # <<>> /\ Head(rest) = "." THEN DigitPrefix(Tail(rest)) ELSE <<>>
      f1 == IF Len(fp) >= 1 THEN DigitValue(fp[1]) ELSE 0
      f2 == IF Len(fp) >= 2 THEN DigitValue(fp[2]) ELSE 0
      magnitude == 100 * DigitsValue(ip) + 10 * f1 + f2
  IN  IF Len(ip) + Len(fp) = 0 THEN NaN
      ELSE Num(IF negative THEN -magnitude ELSE magnitude)

isNaN(x) == x.nan

\* Number.prototype.toString of a non-negative amount in cents
NumberToString(c) ==
  LET whole == DigitsOf(c \div 100)
      frac == c % 100
  IN  IF frac = 0 THEN whole
      ELSE IF frac % 10 = 0 THEN whole \o <<".", Digits[(frac \div 10) + 1]>>
      ELSE whole \o <<".", Digits[(frac \div 10) + 1], Digits[(frac % 10) + 1]>>

\* String.prototype.padStart(2, "0") of a number below 100
PadStart2(n) == IF n < 10 THEN "0" \o ToString(n) ELSE ToString(n)

\* formatDate: hours and minutes of the clock reading, which counts the
\* milliseconds of the current day
formatDate(t) ==
  LET hours == (t \div 3600000) % 24
      minutes == (t \div 60000) % 60
  IN  "Today, " \o ToString(hours) \o ":" \o PadStart2(minutes) \o " "
        \o (IF hours >= 12 THEN "PM" ELSE "AM")

(***************************************************************************)
(* Categories                                                              *)
(***************************************************************************)
Category(id, name, icon, type) == [id |-> id, name |-> name, icon |-> icon, type |-> type]

addCategories ==
  << Category("salary", "Salary", "cash-outline", "income"),
     Category("freelance", "Freelance", "briefcase-outline", "income"),
     Category("investment", "Investment", "trending-up-outline", "income"),
     Category("gift", "Gift", "gift-outline", "income"),
     Category("food", "Food", "restaurant-outline", "expense"),
     Category("transport", "Transport", "car-outline", "expense"),
     Category("shopping", "Shopping", "cart-outline", "expense"),
     Category("bills", "Bills", "document-text-outline", "expense"),
     Category("entertainment", "Entertainment", "film-outline", "expense"),
     Category("health", "Health", "medical-outline", "expense") >>

editCategories ==
  << Category("salary", "Salary", "cash-outline", "income"),
     Category("freelance", "Freelance", "briefcase-outline", "income"),
     Category("investment", "Investment", "trending-up-outline", "income"),
     Category("interest", "Interest", "analytics-outline", "income"),
     Category("gift", "Gift", "gift-outline", "income"),
     Category("food", "Food", "restaurant-outline", "expense"),
     Category("transport", "Transport", "car-outline", "expense"),
     Category("shopping", "Shopping", "cart-outline", "expense"),
     Category("bills", "Bills", "document-text-outline", "expense"),
     Category("entertainment", "Entertainment", "film-outline", "expense"),
     Category("health", "Health", "medical-outline", "expense") >>

\* filteredCategories of a form: the categories of the chosen transaction type
filteredCategories(categories, transactionType) ==
  SelectSeq(categories, LAMBDA c : c.type = transactionType)

Range(s) == {s[i] : i \in 1..Len(s)}

(***************************************************************************)
(* Initial state: the home screen has mounted, and both its useEffect and  *)
(* its useFocusEffect have called loadTransactions.                        *)
(***************************************************************************)
NoForm == [open |-> FALSE]

InitCommon ==
  /\ store = None
  /\ transactions = <<>>
  /\ balances = [a \in AccountIds |-> INITIAL_BALANCE]
  /\ selectedAccountId = "chequing"
  /\ selectedTransaction = None
  /\ showActionModal = FALSE
  /\ loadsReading = 2
  /\ loadsSeeding = 0
  /\ deleteTasks = {}
  /\ screen = "home"
  /\ alerts = <<>>
  /\ addForm = NoForm
  /\ addTasks = {}
  /\ editForm = NoForm
  /\ editTasks = {}
  /\ now = ClockStart
  /\ used = [nav |-> 0, ops |-> 0, fail |-> 0]

Init == variant \in {"single", "multi"} /\ InitCommon
InitSingle == variant = "single" /\ InitCommon
InitMulti == variant = "multi" /\ InitCommon

homeVars == <<transactions, balances, selectedAccountId, selectedTransaction,
              showActionModal>>
formVars == <<addForm, addTasks, editForm, editTasks>>

\* A storage call may fail while failures remain in the budget.
CanFail == used.fail < MaxFails
Failed == [used EXCEPT !.fail = @ + 1]

(***************************************************************************)
(* loadTransactions                                                        *)
(***************************************************************************)
\* a test that also takes a stored empty list for nothing stored
TruthyNonEmpty(stored) == stored # None /\ Get(stored) # <<>>

\* `if (storedTransactions)`: null is falsy, every JSON text written is truthy
Truthy(stored) == stored # None

\* a home that sets the list and leaves the balances as they were
SetHomeKeepingBalances(list) ==
  /\ transactions' = list
  /\ balances' = balances

\* setTransactions(list); updateBalance(s)(list)
SetHome(list) ==
  /\ transactions' = list
  /\ balances' = updateBalances(list)

\* a load that adds what it read to the list already in memory
LoadParsedAppending ==
  /\ loadsReading > 0
  /\ Truthy(store)
  /\ loadsReading' = loadsReading - 1
  /\ SetHome(transactions \o Get(store))
  /\ UNCHANGED <<variant, store, selectedAccountId, selectedTransaction,
                 showActionModal, loadsSeeding, deleteTasks, screen, alerts,
                 formVars, now, used>>

\* getItem resolves with a value that parses: the in-memory list is set from it
LoadParsed ==
  /\ loadsReading > 0
  /\ Truthy(store)
  /\ loadsReading' = loadsReading - 1
  /\ SetHome(Get(store))
  /\ UNCHANGED <<variant, store, selectedAccountId, selectedTransaction,
                 showActionModal, loadsSeeding, deleteTasks, screen, alerts,
                 formVars, now, used>>

\* getItem resolves with null: setItem(defaults) is issued
LoadFoundNothing ==
  /\ loadsReading > 0
  /\ ~Truthy(store)
  /\ loadsReading' = loadsReading - 1
  /\ loadsSeeding' = loadsSeeding + 1
  /\ UNCHANGED <<variant, store, homeVars, deleteTasks, screen, alerts,
                 formVars, now, used>>

\* a catch block that also stores the samples
LoadReadFailedStoring ==
  /\ loadsReading > 0
  /\ CanFail
  /\ used' = Failed
  /\ loadsReading' = loadsReading - 1
  /\ store' = Some(defaultTransactions)
  /\ SetHome(defaultTransactions)
  /\ UNCHANGED <<variant, selectedAccountId, selectedTransaction,
                 showActionModal, loadsSeeding, deleteTasks, screen, alerts,
                 formVars, now>>

\* getItem rejects or JSON.parse throws: the catch block
LoadReadFailed ==
  /\ loadsReading > 0
  /\ CanFail
  /\ used' = Failed
  /\ loadsReading' = loadsReading - 1
  /\ SetHome(defaultTransactions)
  /\ UNCHANGED <<variant, store, selectedAccountId, selectedTransaction,
                 showActionModal, loadsSeeding, deleteTasks, screen, alerts,
                 formVars, now>>

\* a seeding that sets the home from the samples but stores nothing
LoadSeededUnsaved ==
  /\ loadsSeeding > 0
  /\ loadsSeeding' = loadsSeeding - 1
  /\ SetHome(defaultTransactions)
  /\ UNCHANGED <<variant, store, selectedAccountId, selectedTransaction,
                 showActionModal, loadsReading, deleteTasks, screen, alerts,
                 formVars, now, used>>

\* setItem(defaults) resolves
LoadSeeded ==
  /\ loadsSeeding > 0
  /\ loadsSeeding' = loadsSeeding - 1
  /\ store' = Some(defaultTransactions)
  /\ SetHome(defaultTransactions)
  /\ UNCHANGED <<variant, selectedAccountId, selectedTransaction,
                 showActionModal, loadsReading, deleteTasks, screen, alerts,
                 formVars, now, used>>

\* setItem(defaults) rejects: the catch block
LoadSeedFailed ==
  /\ loadsSeeding > 0
  /\ CanFail
  /\ used' = Failed
  /\ loadsSeeding' = loadsSeeding - 1
  /\ SetHome(defaultTransactions)
  /\ UNCHANGED <<variant, store, selectedAccountId, selectedTransaction,
                 showActionModal, loadsReading, deleteTasks, screen, alerts,
                 formVars, now>>

loadTransactions ==
  \/ LoadParsed
  \/ LoadFoundNothing
  \/ LoadReadFailed
  \/ LoadSeeded
  \/ LoadSeedFailed

(***************************************************************************)
(* Alert.alert dialogs.  A dialog stays queued until the user presses one  *)
(* of its buttons; no other touch reaches the screens while one is shown.  *)
(*   info    : a single default button that only dismisses                 *)
(*   back    : an OK button wired to router.back()                         *)
(*   confirm : showDeleteConfirmation's Cancel / Delete dialog             *)
(***************************************************************************)
InfoAlert(text) == [kind |-> "info", text |-> text, id |-> 0, list |-> <<>>]
BackAlert(text) == [kind |-> "back", text |-> text, id |-> 0, list |-> <<>>]
ConfirmAlert(id, list) ==
  [kind |-> "confirm", text |-> "Delete Transaction", id |-> id, list |-> list]

Idle == alerts = <<>>   \* no dialog is shown: the screens take touches

\* The home screen gains focus: useFocusEffect calls loadTransactions.
FocusHome ==
  /\ screen' = "home"
  /\ loadsReading' = loadsReading + 1

(***************************************************************************)
(* Home screen touches                                                     *)
(***************************************************************************)
\* onPress of a listed transaction
PressTransaction(t) ==
  /\ screen = "home" /\ Idle /\ ~showActionModal
  /\ t \in Range(filteredTransactions)
  /\ selectedTransaction' = Some(t)
  /\ showActionModal' = TRUE
  /\ UNCHANGED <<variant, store, transactions, balances, selectedAccountId,
                 loadsReading, loadsSeeding, deleteTasks, screen, alerts,
                 formVars, now, used>>

\* the action modal's Cancel option, its overlay, or onRequestClose
CloseActionModal ==
  /\ screen = "home" /\ Idle /\ showActionModal
  /\ showActionModal' = FALSE
  /\ UNCHANGED <<variant, store, transactions, balances, selectedAccountId,
                 selectedTransaction, loadsReading, loadsSeeding, deleteTasks,
                 screen, alerts, formVars, now, used>>

\* the account modal's option: setSelectedAccountId(account.id)
SelectAccount(a) ==
  /\ variant = "multi"
  /\ screen = "home" /\ Idle /\ ~showActionModal
  /\ a \in AccountIds /\ a # selectedAccountId
  /\ selectedAccountId' = a
  /\ UNCHANGED <<variant, store, transactions, balances, selectedTransaction,
                 showActionModal, loadsReading, loadsSeeding, deleteTasks,
                 screen, alerts, formVars, now, used>>

\* the action modal's Delete option
showDeleteConfirmation ==
  /\ screen = "home" /\ Idle /\ showActionModal
  /\ selectedTransaction # None
  /\ used.ops < MaxOps
  /\ used' = [used EXCEPT !.ops = @ + 1]
  /\ alerts' = Append(alerts, ConfirmAlert(Get(selectedTransaction).id, transactions))
  /\ showActionModal' = FALSE
  /\ UNCHANGED <<variant, store, transactions, balances, selectedAccountId,
                 selectedTransaction, loadsReading, loadsSeeding, deleteTasks,
                 screen, formVars, now>>

\* the confirmation's Cancel button
CancelDelete ==
  /\ alerts # <<>> /\ Head(alerts).kind = "confirm"
  /\ alerts' = Tail(alerts)
  /\ UNCHANGED <<variant, store, homeVars, loadsReading, loadsSeeding,
                 deleteTasks, screen, formVars, now, used>>

\* an info dialog's button
DismissInfo ==
  /\ alerts # <<>> /\ Head(alerts).kind = "info"
  /\ alerts' = Tail(alerts)
  /\ UNCHANGED <<variant, store, homeVars, loadsReading, loadsSeeding,
                 deleteTasks, screen, formVars, now, used>>

(***************************************************************************)
(* deleteTransaction                                                       *)
(***************************************************************************)
DeleteTask(tid, id, updated) == [tid |-> tid, id |-> id, updated |-> updated]

\* The confirmation's Delete button calls deleteTransaction(id) of the render
\* that showed the dialog: it filters that render's transactions and issues
\* setItem.
DeleteStart ==
  /\ alerts # <<>> /\ Head(alerts).kind = "confirm"
  /\ alerts' = Tail(alerts)
  /\ LET a == Head(alerts) IN
       /\ deleteTasks' = deleteTasks \cup
            {DeleteTask(used.ops, a.id, FilterOutId(a.list, a.id))}
  /\ UNCHANGED <<variant, store, homeVars, loadsReading, loadsSeeding,
                 screen, formVars, now, used>>

\* setItem resolves
DeleteWritten(task) ==
  /\ task \in deleteTasks
  /\ deleteTasks' = deleteTasks \ {task}
  /\ store' = Some(task.updated)
  /\ SetHome(task.updated)
  /\ alerts' = Append(alerts, InfoAlert("Transaction deleted successfully"))
  /\ showActionModal' = FALSE
  /\ UNCHANGED <<variant, selectedAccountId, selectedTransaction, loadsReading,
                 loadsSeeding, screen, formVars, now, used>>

\* a catch block that also sets the home from the filtered list
DeleteWriteFailedUpdating(task) ==
  /\ task \in deleteTasks
  /\ CanFail
  /\ used' = Failed
  /\ deleteTasks' = deleteTasks \ {task}
  /\ SetHome(task.updated)
  /\ alerts' = Append(alerts, InfoAlert("Could not delete the transaction"))
  /\ showActionModal' = FALSE
  /\ UNCHANGED <<variant, store, selectedAccountId, selectedTransaction,
                 loadsReading, loadsSeeding, screen, formVars, now>>

\* setItem rejects: the catch block
DeleteWriteFailed(task) ==
  /\ task \in deleteTasks
  /\ CanFail
  /\ used' = Failed
  /\ deleteTasks' = deleteTasks \ {task}
  /\ alerts' = Append(alerts, InfoAlert("Could not delete the transaction"))
  /\ showActionModal' = FALSE
  /\ UNCHANGED <<variant, store, transactions, balances, selectedAccountId,
                 selectedTransaction, loadsReading, loadsSeeding, screen,
                 formVars, now>>

deleteTransaction ==
  \/ DeleteStart
  \/ \E task \in deleteTasks : DeleteWritten(task)
  \/ \E task \in deleteTasks : DeleteWriteFailed(task)

\* The transactions the model's user presses: two samples, and every added one.
Pressable(t) == t.id \in {2, 4} \/ t.id >= ClockStart

homeTouches ==
  \/ \E t \in Range(filteredTransactions) : Pressable(t) /\ PressTransaction(t)
  \/ CloseActionModal
  \/ showDeleteConfirmation
  \/ CancelDelete
  \/ DismissInfo

(***************************************************************************)
(* Navigation                                                              *)
(***************************************************************************)
\* the add screen's state after mount
AddFormInit ==
  [open |-> TRUE, transactionType |-> "expense", merchant |-> <<>>,
   amount |-> <<>>, selectedCategory |-> None]

\* the home's "Add New" / "More": router.push("/add-transaction")
navigateToAddTransaction ==
  /\ screen = "home" /\ Idle /\ ~showActionModal
  /\ used.nav < MaxNav
  /\ used' = [used EXCEPT !.nav = @ + 1]
  /\ screen' = "add"
  /\ addForm' = AddFormInit
  /\ UNCHANGED <<variant, store, homeVars, loadsReading, loadsSeeding,
                 deleteTasks, alerts, addTasks, editForm, editTasks, now>>

\* router.back(): the form on top unmounts and the home screen gains focus;
\* on the home screen there is nothing to go back to
RouterBack ==
  IF screen = "home"
  THEN UNCHANGED <<screen, loadsReading, addForm, editForm>>
  ELSE /\ FocusHome
       /\ addForm' = NoForm
       /\ editForm' = NoForm

\* the OK button of a form's outcome dialog: onPress: () => router.back()
DismissBack ==
  /\ alerts # <<>> /\ Head(alerts).kind = "back"
  /\ alerts' = Tail(alerts)
  /\ RouterBack
  /\ UNCHANGED <<variant, store, homeVars, loadsSeeding, deleteTasks,
                 addTasks, editTasks, now, used>>

\* Date.now(): a reading not before the last one, and at most MaxTicks
\* after the first
ClockReadings == {t \in now..(now + 1) : t <= ClockStart + MaxTicks}

(***************************************************************************)
(* Add form (src/app/add-transaction.tsx)                                  *)
(***************************************************************************)
AddTouch == screen = "add" /\ Idle

AddFormStep(form) ==
  /\ addForm' = form
  /\ UNCHANGED <<variant, store, homeVars, loadsReading, loadsSeeding,
                 deleteTasks, screen, alerts, addTasks, editForm, editTasks,
                 now, used>>

\* a toggle that also clears the selected category
AddSetTransactionTypeClearing(type) ==
  /\ AddTouch /\ addForm.transactionType # type
  /\ AddFormStep([addForm EXCEPT !.transactionType = type,
                                 !.selectedCategory = None])

\* the type toggle: onPress={() => setTransactionType(type)}
AddSetTransactionType(type) ==
  /\ AddTouch /\ addForm.transactionType # type
  /\ AddFormStep([addForm EXCEPT !.transactionType = type])

\* the name input: onChangeText={setMerchant}
AddSetMerchant(text) ==
  /\ AddTouch /\ addForm.merchant # text
  /\ AddFormStep([addForm EXCEPT !.merchant = text])

\* the amount input: onChangeText={setAmount}
AddSetAmount(text) ==
  /\ AddTouch /\ addForm.amount # text
  /\ AddFormStep([addForm EXCEPT !.amount = text])

\* a category item: only the categories of the chosen type are listed
AddSetSelectedCategory(c) ==
  /\ AddTouch /\ addForm.selectedCategory # Some(c)
  /\ c \in Range(filteredCategories(addCategories, addForm.transactionType))
  /\ AddFormStep([addForm EXCEPT !.selectedCategory = Some(c)])

\* the checks with the category's first
ValidateCategoryFirst(form) ==
  IF form.selectedCategory = None THEN "Please select a category"
  ELSE IF Trim(form.merchant) = <<>> THEN "Please enter a name for the transaction"
  ELSE IF Trim(form.amount) = <<>> \/ isNaN(parseFloat(form.amount))
       THEN "Please enter a valid amount"
  ELSE "ok"

\* the checks of handleSubmit, in order: the notice of the first that fails
Validate(form) ==
  IF Trim(form.merchant) = <<>> THEN "Please enter a name for the transaction"
  ELSE IF Trim(form.amount) = <<>> \/ isNaN(parseFloat(form.amount))
       THEN "Please enter a valid amount"
  ELSE IF form.selectedCategory = None THEN "Please select a category"
  ELSE "ok"

\* an amount that negates for an expense without taking the absolute value
SignedAmountNegating(transactionType, text) ==
  IF transactionType = "expense"
  THEN -(parseFloat(text).cents)
  ELSE parseFloat(text).cents

\* amount: type === "expense" ? -Math.abs(parseFloat(amount)) : Math.abs(...)
SignedAmount(transactionType, text) ==
  IF transactionType = "expense"
  THEN -Abs(parseFloat(text).cents)
  ELSE Abs(parseFloat(text).cents)

\* newTransaction: no accountId field is set
NewTransaction(form, t) ==
  Txn(t, Trim(form.merchant), SignedAmount(form.transactionType, form.amount),
      formatDate(t), Get(form.selectedCategory).icon, Undefined)

Task(tid, pc, rec, updated) == [tid |-> tid, pc |-> pc, rec |-> rec, updated |-> updated]

\* JSON.parse of what getItem returned, or [] for null
ExistingTransactions(stored) == IF stored = None THEN <<>> ELSE Get(stored)

\* a check of handleSubmit fails: one dialog, no storage call
AddSubmitInvalid ==
  /\ AddTouch
  /\ Validate(addForm) # "ok"
  /\ alerts' = Append(alerts, InfoAlert(Validate(addForm)))
  /\ UNCHANGED <<variant, store, homeVars, loadsReading, loadsSeeding,
                 deleteTasks, screen, formVars, now, used>>

\* handleSubmit passes its checks, builds newTransaction and issues getItem
AddSubmit(t) ==
  /\ AddTouch
  /\ Validate(addForm) = "ok"
  /\ used.ops < MaxOps
  /\ used' = [used EXCEPT !.ops = @ + 1]
  /\ now' = t
  /\ addTasks' = addTasks \cup
       {Task(used.ops + 1, "read", NewTransaction(addForm, t), <<>>)}
  /\ UNCHANGED <<variant, store, homeVars, loadsReading, loadsSeeding,
                 deleteTasks, screen, alerts, addForm, editForm, editTasks>>

\* a read step that puts the new record last
AddReadAppending(task) ==
  /\ task \in addTasks /\ task.pc = "read"
  /\ addTasks' = (addTasks \ {task}) \cup
       {Task(task.tid, "write", task.rec,
             ExistingTransactions(store) \o <<task.rec>>)}
  /\ UNCHANGED <<variant, store, homeVars, loadsReading, loadsSeeding,
                 deleteTasks, screen, alerts, addForm, editForm, editTasks,
                 now, used>>

\* getItem resolves: updatedTransactions is built and setItem issued
AddRead(task) ==
  /\ task \in addTasks /\ task.pc = "read"
  /\ addTasks' = (addTasks \ {task}) \cup
       {Task(task.tid, "write", task.rec,
             <<task.rec>> \o ExistingTransactions(store))}
  /\ UNCHANGED <<variant, store, homeVars, loadsReading, loadsSeeding,
                 deleteTasks, screen, alerts, addForm, editForm, editTasks,
                 now, used>>

\* a write that prepends the record to what is persisted when it lands
AddWrittenMerging(task) ==
  /\ task \in addTasks /\ task.pc = "write"
  /\ addTasks' = addTasks \ {task}
  /\ store' = Some(<<task.rec>> \o ExistingTransactions(store))
  /\ alerts' = Append(alerts, BackAlert("Transaction added successfully"))
  /\ UNCHANGED <<variant, homeVars, loadsReading, loadsSeeding, deleteTasks,
                 screen, addForm, editForm, editTasks, now, used>>

\* a write that takes effect without a word to the user
AddWrittenSilently(task) ==
  /\ task \in addTasks /\ task.pc = "write"
  /\ addTasks' = addTasks \ {task}
  /\ store' = Some(task.updated)
  /\ UNCHANGED <<variant, homeVars, loadsReading, loadsSeeding, deleteTasks,
                 screen, alerts, addForm, editForm, editTasks, now, used>>

\* setItem resolves
AddWritten(task) ==
  /\ task \in addTasks /\ task.pc = "write"
  /\ addTasks' = addTasks \ {task}
  /\ store' = Some(task.updated)
  /\ alerts' = Append(alerts, BackAlert("Transaction added successfully"))
  /\ UNCHANGED <<variant, homeVars, loadsReading, loadsSeeding, deleteTasks,
                 screen, addForm, editForm, editTasks, now, used>>

\* a catch block that starts the submission over
AddFailedRetrying(task) ==
  /\ task \in addTasks
  /\ CanFail
  /\ used' = Failed
  /\ addTasks' = (addTasks \ {task}) \cup {Task(task.tid, "read", task.rec, <<>>)}
  /\ alerts' = Append(alerts, BackAlert("Transaction created but could not be saved permanently."))
  /\ UNCHANGED <<variant, store, homeVars, loadsReading, loadsSeeding,
                 deleteTasks, screen, addForm, editForm, editTasks, now>>

\* getItem or setItem rejects (or JSON.parse throws): the catch block
AddFailed(task) ==
  /\ task \in addTasks
  /\ CanFail
  /\ used' = Failed
  /\ addTasks' = addTasks \ {task}
  /\ alerts' = Append(alerts, BackAlert("Transaction created but could not be saved permanently."))
  /\ UNCHANGED <<variant, store, homeVars, loadsReading, loadsSeeding,
                 deleteTasks, screen, addForm, editForm, editTasks, now>>

\* The user fills in the pristine form: the type toggle, then the two text
\* inputs, then one of the categories listed for the type.
AddFill(type, merchant, amount, c) ==
  /\ AddTouch /\ addForm = AddFormInit
  /\ c \in Range(filteredCategories(addCategories, type))
  /\ AddFormStep([AddFormInit EXCEPT !.transactionType = type,
                                     !.merchant = merchant,
                                     !.amount = amount,
                                     !.selectedCategory = Some(c)])

\* The texts and categories the model's user enters.
TypeInputs == {"expense", "income"}
MerchantInputs == {<<"Bookstore">>}
AmountInputs == {<<"1", "9", ".", "9", "9">>}
CategoryInputs == {"salary", "shopping"}

addTransaction ==
  \/ \E type \in TypeInputs, merchant \in MerchantInputs, amount \in AmountInputs,
        c \in Range(addCategories) :
          c.id \in CategoryInputs /\ AddFill(type, merchant, amount, c)
  \/ AddSubmitInvalid
  \/ \E t \in ClockReadings : AddSubmit(t)
  \/ \E task \in addTasks : AddRead(task)
  \/ \E task \in addTasks : AddWritten(task)
  \/ \E task \in addTasks : AddFailed(task)

(***************************************************************************)
(* Edit form (src/app/edit-transaction.tsx)                                *)
(***************************************************************************)
\* a find that takes the first category of the type, whatever its icon
RECURSIVE FindCategoryOfType(_, _, _)
FindCategoryOfType(categories, icon, type) ==
  IF categories = <<>> THEN None
  ELSE IF Head(categories).type = type
       THEN Some(Head(categories))
       ELSE FindCategoryOfType(Tail(categories), icon, type)

\* categories.find(cat => cat.icon === icon && cat.type === type)
RECURSIVE FindCategory(_, _, _)
FindCategory(categories, icon, type) ==
  IF categories = <<>> THEN None
  ELSE IF Head(categories).icon = icon /\ Head(categories).type = type
       THEN Some(Head(categories))
       ELSE FindCategory(Tail(categories), icon, type)

TypeOfAmount(amount) == IF amount >= 0 THEN "income" ELSE "expense"

\* loadedTransaction.accountId || "chequing"
AccountOrChequing(accountId) == IF accountId = Undefined THEN "chequing" ELSE accountId

\* the edit screen's state after its useEffect has read params.transaction
EditFormInit(t) ==
  [open |-> TRUE, transaction |-> Some(t),
   transactionType |-> TypeOfAmount(t.amount),
   merchant |-> t.merchant,
   amount |-> NumberToString(Abs(t.amount)),
   selectedCategory |-> FindCategory(editCategories, t.icon, TypeOfAmount(t.amount)),
   selectedAccountId |-> AccountOrChequing(t.accountId)]

\* the action modal's Edit option: router.push with the selected transaction
navigateToEditTransaction ==
  /\ screen = "home" /\ Idle /\ showActionModal
  /\ selectedTransaction # None
  /\ used.nav < MaxNav
  /\ used' = [used EXCEPT !.nav = @ + 1]
  /\ screen' = "edit"
  /\ editForm' = EditFormInit(Get(selectedTransaction))
  /\ showActionModal' = FALSE
  /\ UNCHANGED <<variant, store, transactions, balances, selectedAccountId,
                 selectedTransaction, loadsReading, loadsSeeding, deleteTasks,
                 alerts, addForm, addTasks, editTasks, now>>

\* the edit screen's state at mount, before a transaction is set
EditFormUnloaded ==
  [open |-> TRUE, transaction |-> None,
   transactionType |-> "expense",
   merchant |-> <<>>, amount |-> <<>>,
   selectedCategory |-> None,
   selectedAccountId |-> "chequing"]

\* params.transaction of a route opened by a link: absent, or a text that
\* JSON.parse rejects
Unparsable == "{"
LinkParams == {Undefined, Unparsable}

\* The route /edit-transaction is opened over the home screen without a
\* transaction that parses: the useEffect raises its alert and calls
\* router.back(); the screen shows "Loading transaction..." meanwhile.
EditOpenedWithout(param) ==
  /\ screen = "home" /\ Idle
  /\ param \in LinkParams
  /\ used.nav < MaxNav
  /\ used' = [used EXCEPT !.nav = @ + 1]
  /\ screen' = "edit"
  /\ editForm' = EditFormUnloaded
  /\ alerts' = Append(alerts,
       InfoAlert(IF param = Undefined THEN "No transaction to edit"
                 ELSE "Could not load transaction details"))
  /\ UNCHANGED <<variant, store, homeVars, loadsReading, loadsSeeding,
                 deleteTasks, addForm, addTasks, editTasks, now>>

\* the router.back() of the useEffect takes effect: the home screen is focused
EditBackUnloaded ==
  /\ screen = "edit" /\ editForm.transaction = None
  /\ RouterBack
  /\ UNCHANGED <<variant, store, homeVars, loadsSeeding, deleteTasks, alerts,
                 addTasks, editTasks, now, used>>

\* a handleSubmit that goes on to its checks with no transaction set
EditSubmitUnloadedChecking ==
  /\ screen = "edit" /\ editForm.transaction = None
  /\ alerts' = Append(alerts, InfoAlert(Validate(editForm)))
  /\ UNCHANGED <<variant, store, homeVars, loadsReading, loadsSeeding,
                 deleteTasks, screen, formVars, now, used>>

\* handleSubmit while transaction is null: `if (!transaction) return;`
EditSubmitUnloaded ==
  /\ screen = "edit" /\ editForm.transaction = None
  /\ UNCHANGED vars

\* the form's inputs and its button are rendered once a transaction is set
EditTouch == screen = "edit" /\ Idle /\ editForm.transaction # None

EditFormStep(form) ==
  /\ editForm' = form
  /\ UNCHANGED <<variant, store, homeVars, loadsReading, loadsSeeding,
                 deleteTasks, screen, alerts, addForm, addTasks, editTasks,
                 now, used>>

\* the type toggle: onPress={() => setTransactionType(type)}
EditSetTransactionType(type) ==
  /\ EditTouch /\ editForm.transactionType # type
  /\ EditFormStep([editForm EXCEPT !.transactionType = type])

\* the name input: onChangeText={setMerchant}
EditSetMerchant(text) ==
  /\ EditTouch /\ editForm.merchant # text
  /\ EditFormStep([editForm EXCEPT !.merchant = text])

\* the amount input: onChangeText={setAmount}
EditSetAmount(text) ==
  /\ EditTouch /\ editForm.amount # text
  /\ EditFormStep([editForm EXCEPT !.amount = text])

\* a category item: only the categories of the chosen type are listed
EditSetSelectedCategory(c) ==
  /\ EditTouch /\ editForm.selectedCategory # Some(c)
  /\ c \in Range(filteredCategories(editCategories, editForm.transactionType))
  /\ EditFormStep([editForm EXCEPT !.selectedCategory = Some(c)])

\* an account option: onPress={() => setSelectedAccountId(account.id)}
EditSetSelectedAccountId(a) ==
  /\ EditTouch /\ editForm.selectedAccountId # a
  /\ EditFormStep([editForm EXCEPT !.selectedAccountId = a])

\* an updated record dated at the reading of the clock
UpdatedTransactionRedated(form) ==
  Txn(Get(form.transaction).id, Trim(form.merchant),
      SignedAmount(form.transactionType, form.amount),
      formatDate(now), Get(form.selectedCategory).icon,
      form.selectedAccountId)

\* updatedTransaction: the id and the date of the transaction opened
UpdatedTransaction(form) ==
  Txn(Get(form.transaction).id, Trim(form.merchant),
      SignedAmount(form.transactionType, form.amount),
      Get(form.transaction).date, Get(form.selectedCategory).icon,
      form.selectedAccountId)

\* a map that also appends the updated record when no id matches
MapReplaceOrAppend(list, updated) ==
  IF \E i \in 1..Len(list) : list[i].id = updated.id
  THEN [i \in 1..Len(list) |-> IF list[i].id = updated.id THEN updated ELSE list[i]]
  ELSE Append(list, updated)

\* a map that puts the updated record at every position
MapReplaceEvery(list, updated) ==
  [i \in 1..Len(list) |-> updated]

\* existingTransactions.map(t => t.id === updated.id ? updated : t)
MapReplace(list, updated) ==
  [i \in 1..Len(list) |-> IF list[i].id = updated.id THEN updated ELSE list[i]]

EditSubmitInvalid ==
  /\ EditTouch
  /\ editForm.transaction # None
  /\ Validate(editForm) # "ok"
  /\ alerts' = Append(alerts, InfoAlert(Validate(editForm)))
  /\ UNCHANGED <<variant, store, homeVars, loadsReading, loadsSeeding,
                 deleteTasks, screen, formVars, now, used>>

\* handleSubmit passes its checks, builds updatedTransaction and issues getItem
EditSubmit ==
  /\ EditTouch
  /\ editForm.transaction # None
  /\ Validate(editForm) = "ok"
  /\ used.ops < MaxOps
  /\ used' = [used EXCEPT !.ops = @ + 1]
  /\ editTasks' = editTasks \cup
       {Task(used.ops + 1, "read", UpdatedTransaction(editForm), <<>>)}
  /\ UNCHANGED <<variant, store, homeVars, loadsReading, loadsSeeding,
                 deleteTasks, screen, alerts, addForm, addTasks, editForm, now>>

\* getItem resolves: updatedTransactions is built and setItem issued
EditRead(task) ==
  /\ task \in editTasks /\ task.pc = "read"
  /\ editTasks' = (editTasks \ {task}) \cup
       {Task(task.tid, "write", task.rec,
             MapReplace(ExistingTransactions(store), task.rec))}
  /\ UNCHANGED <<variant, store, homeVars, loadsReading, loadsSeeding,
                 deleteTasks, screen, alerts, addForm, addTasks, editForm,
                 now, used>>

\* setItem resolves
EditWritten(task) ==
  /\ task \in editTasks /\ task.pc = "write"
  /\ editTasks' = editTasks \ {task}
  /\ store' = Some(task.updated)
  /\ alerts' = Append(alerts, BackAlert("Transaction updated successfully"))
  /\ UNCHANGED <<variant, homeVars, loadsReading, loadsSeeding, deleteTasks,
                 screen, addForm, addTasks, editForm, now, used>>

\* getItem or setItem rejects (or JSON.parse throws): the catch block
EditFailed(task) ==
  /\ task \in editTasks
  /\ CanFail
  /\ used' = Failed
  /\ editTasks' = editTasks \ {task}
  /\ alerts' = Append(alerts, BackAlert("Could not update the transaction"))
  /\ UNCHANGED <<variant, store, homeVars, loadsReading, loadsSeeding,
                 deleteTasks, screen, addForm, addTasks, editForm, now>>

\* The user changes the form as opened: the type toggle, the account, the
\* amount, then one of the categories listed for the type.
EditFill(type, a, amount, c) ==
  /\ EditTouch /\ editForm = EditFormInit(Get(editForm.transaction))
  /\ c \in Range(filteredCategories(editCategories, type))
  /\ EditFormStep([editForm EXCEPT !.transactionType = type,
                                   !.selectedAccountId = a,
                                   !.amount = amount,
                                   !.selectedCategory = Some(c)])

EditAmountInputs == {<<"5">>}
EditAccountInputs == {"chequing", "savings"}

editTransaction ==
  \/ \E type \in TypeInputs, a \in EditAccountInputs, amount \in EditAmountInputs,
        c \in Range(editCategories) :
          c.id \in CategoryInputs /\ EditFill(type, a, amount, c)
  \/ EditSubmitInvalid
  \/ EditSubmit
  \/ \E task \in editTasks : EditRead(task)
  \/ \E task \in editTasks : EditWritten(task)
  \/ \E task \in editTasks : EditFailed(task)

navigation ==
  \/ navigateToAddTransaction
  \/ navigateToEditTransaction
  \/ DismissBack

(***************************************************************************)
(* Specifications: the single-account home, the multi-account home, both.  *)
(***************************************************************************)
NextSingle ==
  \/ loadTransactions
  \/ homeTouches
  \/ deleteTransaction
  \/ navigation
  \/ addTransaction
  \/ editTransaction

Next ==
  \/ NextSingle
  \/ \E a \in AccountIds : SelectAccount(a)

Spec == Init /\ [][Next]_vars
SpecSingle == InitSingle /\ [][NextSingle]_vars
SpecMulti == InitMulti /\ [][Next]_vars

(***************************************************************************)
(* The single-account home whose storage calls return: a getItem or        *)
(* setItem awaited by an add, an edit or a delete is eventually resolved   *)
(* or rejected (AsyncStorage settles every promise it hands out).          *)
(***************************************************************************)
storageReturns ==
  \/ \E task \in addTasks : AddRead(task) \/ AddWritten(task) \/ AddFailed(task)
  \/ \E task \in editTasks : EditRead(task) \/ EditWritten(task) \/ EditFailed(task)
  \/ \E task \in deleteTasks : DeleteWritten(task) \/ DeleteWriteFailed(task)

SpecLive == InitSingle /\ [][NextSingle]_vars /\ WF_vars(storageReturns)

(***************************************************************************)
(* The forms field by field: the user of this specification never deletes, *)
(* and types and chooses one field at a time, so that every combination of *)
(* the fields below is submitted.                                          *)
(***************************************************************************)
MaxFormOps == 1   \* valid submits of this user

\* this user opens a form once the home screen's loads are over
Settled == loadsReading = 0 /\ loadsSeeding = 0

MerchantTexts == {<<" ">>, <<"Bookstore">>}
AmountTexts ==
  { <<"0">>, <<"-", "5">>, <<"1", "9", ".", "9", "9">>, <<"1", "2", "a", "b", "c">>,
    <<"a", "b", "c">> }

addFields ==
  \/ \E type \in TypeInputs : AddSetTransactionType(type)
  \/ \E text \in MerchantTexts : AddSetMerchant(text)
  \/ \E text \in AmountTexts : AddSetAmount(text)
  \/ \E c \in Range(addCategories) :
        c.id \in CategoryInputs /\ AddSetSelectedCategory(c)

editFields ==
  \/ \E type \in TypeInputs : EditSetTransactionType(type)
  \/ \E text \in MerchantTexts : EditSetMerchant(text)
  \/ \E text \in AmountTexts : EditSetAmount(text)
  \/ \E c \in Range(editCategories) :
        c.id \in CategoryInputs /\ EditSetSelectedCategory(c)
  \/ \E a \in EditAccountInputs : EditSetSelectedAccountId(a)

NextForms ==
  \/ loadTransactions
  \/ \E t \in Range(filteredTransactions) : Pressable(t) /\ PressTransaction(t)
  \/ DismissInfo
  \/ Settled /\ navigateToAddTransaction
  \/ Settled /\ navigateToEditTransaction
  \/ DismissBack
  \/ addFields
  \/ AddSubmitInvalid
  \/ \E t \in ClockReadings : used.ops < MaxFormOps /\ AddSubmit(t)
  \/ \E task \in addTasks : AddRead(task)
  \/ \E task \in addTasks : AddWritten(task)
  \/ \E task \in addTasks : AddFailed(task)
  \/ editFields
  \/ EditSubmitInvalid
  \/ used.ops < MaxFormOps /\ EditSubmit
  \/ \E task \in editTasks : EditRead(task)
  \/ \E task \in editTasks : EditWritten(task)
  \/ \E task \in editTasks : EditFailed(task)

SpecForms == InitSingle /\ [][NextForms]_vars

(***************************************************************************)
(* The single-account home whose user also opens the edit screen by a link *)
(* that carries no transaction, or one that does not parse.                *)
(***************************************************************************)
editLinks ==
  \/ \E param \in LinkParams : EditOpenedWithout(param)
  \/ EditBackUnloaded
  \/ EditSubmitUnloaded

NextLinks ==
  \/ NextSingle
  \/ editLinks

SpecLinks == InitSingle /\ [][NextLinks]_vars

(***************************************************************************)
(* Vocabulary of the properties.  A step is recognised by what it does to  *)
(* the calls in flight: a call leaves its set (or its count drops) when    *)
(* its storage call settles, and the failure count rises when it failed.   *)
(***************************************************************************)
NoFailure == used'.fail = used.fail
AFailure == used'.fail = used.fail + 1

\* a load's getItem settled
LoadReadSettled == loadsReading' = loadsReading - 1
\* a load's setItem(defaults) settled
LoadSeedSettled == loadsSeeding' = loadsSeeding - 1
\* the setItem of this add, edit or delete settled with success
AddWriteDone(task) ==
  task \in addTasks /\ task.pc = "write" /\ task \notin addTasks' /\ NoFailure
EditWriteDone(task) ==
  task \in editTasks /\ task.pc = "write" /\ task \notin editTasks' /\ NoFailure
DeleteWriteDone(task) ==
  task \in deleteTasks /\ task \notin deleteTasks' /\ NoFailure
\* the getItem of this add or edit settled with success: its successor awaits setItem
AddReadDone(task) ==
  task \in addTasks /\ task.pc = "read" /\ task \notin addTasks' /\ NoFailure
EditReadDone(task) ==
  task \in editTasks /\ task.pc = "read" /\ task \notin editTasks' /\ NoFailure
Successor(tasks, task) == CHOOSE n \in tasks : n.tid = task.tid

\* the persisted collection, empty when nothing is stored
Persisted == IF store = None THEN <<>> ELSE Get(store)
PersistedNext == IF store' = None THEN <<>> ELSE Get(store')

\* the arithmetic sum of the amounts of the first n records
RECURSIVE SumAmounts(_, _)
SumAmounts(list, n) ==
  IF n = 0 THEN 0 ELSE SumAmounts(list, n - 1) + list[n].amount

\* the same, over the records of account a only
RECURSIVE SumAmountsOf(_, _, _)
SumAmountsOf(list, n, a) ==
  IF n = 0 THEN 0
  ELSE SumAmountsOf(list, n - 1, a) + (IF list[n].accountId = a THEN list[n].amount ELSE 0)

HasId(list, id) == \E i \in 1..Len(list) : list[i].id = id

(***************************************************************************)
(* C1: in the multi-account home, each account's balance is the sum, from  *)
(* zero, of the amounts of exactly the in-memory transactions of that      *)
(* account: in every state, so after every load and every delete.          *)
(***************************************************************************)
C1_BalancePerAccount ==
  variant = "multi" =>
    \A a \in {"chequing", "savings"} :
      balances[a] = SumAmountsOf(transactions, Len(transactions), a)

\* a delete of sample 4 has completed: chequing holds samples 1 to 3, savings 5 and 6
C1_Witness ==
  /\ variant = "multi"
  /\ transactions = FilterOutId(defaultTransactionsMulti, 4)
  /\ store = Some(transactions)
  /\ balances["chequing"] = 243030
  /\ balances["savings"] = 52550

(***************************************************************************)
(* C2: in the single-account home, when a load's read returns a non-empty  *)
(* persisted sequence, the balance it sets is the arithmetic sum of the    *)
(* amounts of all records of that sequence.                                *)
(***************************************************************************)
C2_BalanceAfterLoad ==
  [][(LoadReadSettled /\ NoFailure /\ store # None /\ Get(store) # <<>>)
       => balances'["account"] = SumAmounts(Get(store), Len(Get(store)))]_vars

\* a load has returned the samples with an added expense of 19.99 in front
C2_Witness ==
  /\ variant = "single"
  /\ store # None
  /\ Len(Get(store)) = 6
  /\ Get(store)[1].amount = -1999
  /\ transactions = Get(store)
  /\ balances["account"] = 219457

(***************************************************************************)
(* C3, as claimed: a successful add of r leaves the persisted collection   *)
(* equal to r followed by the records persisted just before its write.     *)
(***************************************************************************)
C3_AddPrependsToPersisted ==
  [][\A task \in addTasks :
       AddWriteDone(task) => PersistedNext = <<task.rec>> \o Persisted]_vars

(***************************************************************************)
(* C3, amended: a successful add of r leaves the persisted collection      *)
(* equal to r followed by the records its own read returned, in their      *)
(* order (all the records persisted before, when no other write came       *)
(* between its read and its write); and a load whose read follows returns  *)
(* exactly the persisted sequence.                                         *)
(***************************************************************************)
C3_AddPrependsToRead ==
  [][/\ \A task \in addTasks :
          AddReadDone(task) =>
            Successor(addTasks', task).updated = <<task.rec>> \o Persisted
     /\ \A task \in addTasks :
          AddWriteDone(task) =>
            /\ store' = Some(task.updated)
            /\ Head(PersistedNext) = task.rec
     /\ (LoadReadSettled /\ NoFailure /\ store # None) => transactions' = Get(store)
    ]_vars

\* an added record heads the samples, and a load has returned that sequence
C3_Witness ==
  /\ store # None
  /\ Len(Get(store)) = Len(defaultTransactions) + 1
  /\ Get(store)[1].id >= ClockStart
  /\ Tail(Get(store)) = defaultTransactions
  /\ transactions = Get(store)

(***************************************************************************)
(* C4, as claimed: a successful update with r keeps the length and order   *)
(* of the persisted collection, puts r where the id matches and leaves     *)
(* every other persisted record as it was just before the write.           *)
(***************************************************************************)
C4_UpdateChangesOnlyMatch ==
  [][\A task \in editTasks :
       EditWriteDone(task) =>
         /\ Len(PersistedNext) = Len(Persisted)
         /\ \A i \in 1..Len(Persisted) :
              PersistedNext[i] =
                IF Persisted[i].id = task.rec.id THEN task.rec ELSE Persisted[i]]_vars

(***************************************************************************)
(* C4, amended: a successful update with r writes the collection its own   *)
(* read returned with r at every position whose id matches and every other *)
(* record unchanged, in the same length and order (the persisted           *)
(* collection before the write, when no other write came between).         *)
(***************************************************************************)
C4_UpdateChangesOnlyMatchOfRead ==
  [][/\ \A task \in editTasks :
          EditReadDone(task) =>
            LET written == Successor(editTasks', task).updated IN
              /\ Len(written) = Len(Persisted)
              /\ \A i \in 1..Len(Persisted) :
                   written[i] =
                     IF Persisted[i].id = task.rec.id THEN task.rec ELSE Persisted[i]
     /\ \A task \in editTasks :
          EditWriteDone(task) => store' = Some(task.updated)
    ]_vars

\* sample 2 has been updated in place to an amount of 5.00, the rest is as seeded
C4_Witness ==
  /\ store # None
  /\ Len(Get(store)) = Len(defaultTransactions)
  /\ Get(store)[2].id = 2
  /\ Abs(Get(store)[2].amount) = 500
  /\ \A i \in 1..Len(defaultTransactions) :
       i # 2 => Get(store)[i] = defaultTransactions[i]

(***************************************************************************)
(* C5, as claimed: a successful remove(id) on a persisted collection of    *)
(* size n leaves it with size n-1, without that id and with the other      *)
(* records in their order; when the id is absent it leaves it unchanged.    *)
(***************************************************************************)
C5_RemoveContract ==
  [][\A task \in deleteTasks :
       DeleteWriteDone(task) =>
         /\ PersistedNext = FilterOutId(Persisted, task.id)
         /\ Len(PersistedNext) =
              IF HasId(Persisted, task.id) THEN Len(Persisted) - 1 ELSE Len(Persisted)
    ]_vars

(***************************************************************************)
(* C6: when a load's read found no stored value and its write succeeds,    *)
(* the in-memory list and the persisted value are both the default sample  *)
(* set: 5 records in the single-account home, 6 in the multi-account home, *)
(* in the declared order.                                                  *)
(***************************************************************************)
C6_SeedsDefaults ==
  [][(LoadSeedSettled /\ NoFailure) =>
       /\ store' = Some(defaultTransactions)
       /\ transactions' = defaultTransactions
       /\ Len(transactions') = (IF variant = "single" THEN 5 ELSE 6)
       /\ \A i \in 1..Len(transactions') : transactions'[i].id = i]_vars

\* both loads are over, nothing failed, nothing else was done
C6_Witness ==
  /\ store = Some(defaultTransactions)
  /\ transactions = defaultTransactions
  /\ loadsReading = 0 /\ loadsSeeding = 0
  /\ used = [nav |-> 0, ops |-> 0, fail |-> 0]

(***************************************************************************)
(* C7, as claimed: load's initialisation is atomic, so when its write of   *)
(* the samples takes effect no other operation has written since its read  *)
(* found nothing: the store is still empty (or holds the samples another   *)
(* load seeded), and no persisted value is overwritten.                    *)
(***************************************************************************)
C7_SeedingAtomic ==
  [][(LoadSeedSettled /\ NoFailure) =>
       store \in {None, Some(defaultTransactions)}]_vars

(***************************************************************************)
(* C8: a load issues the write of the samples if and only if its read      *)
(* found no stored value; a load that reads after any value was persisted  *)
(* (an empty list included) leaves the persisted value as it is.           *)
(***************************************************************************)
C8_SeedsOnlyWhenAbsent ==
  [][/\ (LoadReadSettled /\ NoFailure /\ store = None) =>
          loadsSeeding' = loadsSeeding + 1
     /\ (LoadReadSettled /\ NoFailure /\ store # None) =>
          (loadsSeeding' = loadsSeeding /\ store' = store)
     /\ loadsSeeding' > loadsSeeding => (LoadReadSettled /\ store = None)
     /\ store # None => store' # None
    ]_vars

\* an empty list is persisted, and a load that read it has set the home from it
C8_Witness ==
  /\ store = Some(<<>>)
  /\ transactions = <<>>
  /\ loadsReading = 0 /\ loadsSeeding = 0
  /\ screen = "home"

(***************************************************************************)
(* C9: when a load's read (or the parse of what it read) fails, the        *)
(* in-memory list becomes the default sample set, the balance is derived   *)
(* from it, the load writes nothing, and no notice is raised.              *)
(***************************************************************************)
C9_ReadFailureFallsBack ==
  [][(LoadReadSettled /\ AFailure) =>
       /\ transactions' = defaultTransactions
       /\ \A a \in AccountIds :
            balances'[a] =
              IF variant = "single"
              THEN SumAmounts(defaultTransactions, Len(defaultTransactions))
              ELSE SumAmountsOf(defaultTransactions, Len(defaultTransactions), a)
       /\ store' = store
       /\ loadsSeeding' = loadsSeeding
       /\ alerts' = alerts]_vars

\* the first load's read failed while the second still reads: the samples are
\* shown, nothing is stored, no dialog is up
C9_Witness ==
  /\ used.fail = 1
  /\ store = None
  /\ loadsSeeding = 0 /\ loadsReading = 1
  /\ transactions = defaultTransactions
  /\ balances # [a \in AccountIds |-> INITIAL_BALANCE]
  /\ alerts = <<>>

(***************************************************************************)
(* C10, as claimed: no two records of the persisted collection have the    *)
(* same id.                                                                *)
(***************************************************************************)
C10_UniqueIds ==
  \A i, j \in 1..Len(Persisted) : i # j => Persisted[i].id # Persisted[j].id

(***************************************************************************)
(* Vocabulary of the form properties.                                      *)
(***************************************************************************)
\* the submissions this step starts: handleSubmit has issued its getItem
AddSubmitted == {task \in addTasks' \ addTasks : task.pc = "read"}
EditSubmitted == {task \in editTasks' \ editTasks : task.pc = "read"}

TasksUnchanged == UNCHANGED <<addTasks, editTasks, deleteTasks>>

\* a dialog appears over a form while no storage call starts or settles
NoticeOverForm ==
  /\ screen \in {"add", "edit"}
  /\ Idle
  /\ Len(alerts') = Len(alerts) + 1
  /\ TasksUnchanged

FormOnTop == IF screen = "add" THEN addForm ELSE editForm

(***************************************************************************)
(* C11: the record an edit submits and writes carries the id and the date  *)
(* of the transaction opened for editing, whatever the user chose in the   *)
(* form; the write changes no persisted record's id or date.               *)
(***************************************************************************)
C11_EditKeepsIdAndDate ==
  [][/\ (editForm.open /\ editForm'.open) => editForm'.transaction = editForm.transaction
     /\ \A task \in EditSubmitted :
          /\ task.rec.id = Get(editForm.transaction).id
          /\ task.rec.date = Get(editForm.transaction).date
     /\ \A task \in editTasks :
          EditReadDone(task) =>
            LET next == Successor(editTasks', task) IN
              /\ next.rec = task.rec
              /\ Len(next.updated) = Len(Persisted)
              /\ \A i \in 1..Len(Persisted) :
                   /\ next.updated[i].id = Persisted[i].id
                   /\ next.updated[i].date = Persisted[i].date
     /\ \A task \in editTasks :
          EditWriteDone(task) => store' = Some(task.updated)
    ]_vars

\* sample 4 has been edited to another merchant and amount: id and date are kept
C11_Witness ==
  /\ store # None
  /\ Len(Get(store)) >= 4
  /\ Get(store)[4].id = 4
  /\ Get(store)[4].date = "Mar 23, 2025"
  /\ Get(store)[4].merchant = <<"Bookstore">>
  /\ Get(store)[4].amount # -8575

(***************************************************************************)
(* C12: a submission of the add or edit form with parsed amount v submits  *)
(* a record whose amount is -|v| for type expense and |v| for type income, *)
(* so never positive for an expense and never negative for an income; the  *)
(* add stores that record.                                                 *)
(***************************************************************************)
C12_AmountSign ==
  [][/\ \A task \in AddSubmitted :
          LET v == parseFloat(addForm.amount).cents
              magnitude == IF v < 0 THEN 0 - v ELSE v
          IN  /\ task.rec.amount =
                   (IF addForm.transactionType = "expense" THEN 0 - magnitude ELSE magnitude)
              /\ addForm.transactionType = "expense" => task.rec.amount <= 0
              /\ addForm.transactionType = "income" => task.rec.amount >= 0
     /\ \A task \in EditSubmitted :
          LET v == parseFloat(editForm.amount).cents
              magnitude == IF v < 0 THEN 0 - v ELSE v
          IN  /\ task.rec.amount =
                   (IF editForm.transactionType = "expense" THEN 0 - magnitude ELSE magnitude)
              /\ editForm.transactionType = "expense" => task.rec.amount <= 0
              /\ editForm.transactionType = "income" => task.rec.amount >= 0
     /\ \A task \in addTasks :
          AddWriteDone(task) => Head(PersistedNext).amount = task.rec.amount
    ]_vars

\* "-5" typed as an income has been stored as 5.00
C12_Witness ==
  /\ addForm.open
  /\ addForm.amount = <<"-", "5">>
  /\ addForm.transactionType = "income"
  /\ store # None /\ Get(store) # <<>>
  /\ Head(Get(store)).id >= ClockStart
  /\ Head(Get(store)).amount = 500

(***************************************************************************)
(* C13: a submission checks merchant non-empty, then amount valid, then    *)
(* category selected; a submission that fails a check raises exactly one   *)
(* notice, that of the first failing check, and starts no storage read or  *)
(* write; a submission that starts a read has passed the three checks and  *)
(* raises no notice.                                                       *)
(***************************************************************************)
MerchantGiven(form) == Trim(form.merchant) # <<>>
AmountParses(form) == Trim(form.amount) # <<>> /\ ~parseFloat(form.amount).nan
CategoryChosen(form) == form.selectedCategory # None
ChecksPass(form) == MerchantGiven(form) /\ AmountParses(form) /\ CategoryChosen(form)

NoticeOfFirstFailure(form) ==
  CASE ~MerchantGiven(form) -> "Please enter a name for the transaction"
    [] MerchantGiven(form) /\ ~AmountParses(form) -> "Please enter a valid amount"
    [] MerchantGiven(form) /\ AmountParses(form) -> "Please select a category"

C13_ValidationOrder ==
  [][/\ NoticeOverForm =>
          /\ ~ChecksPass(FormOnTop)
          /\ alerts' = Append(alerts, InfoAlert(NoticeOfFirstFailure(FormOnTop)))
          /\ store' = store
     /\ AddSubmitted # {} => (ChecksPass(addForm) /\ alerts' = alerts /\ store' = store)
     /\ EditSubmitted # {} => (ChecksPass(editForm) /\ alerts' = alerts /\ store' = store)
    ]_vars

\* a form with a merchant, an amount that does not parse and no category was
\* submitted: the one notice is the amount's
C13_Witness ==
  /\ screen = "add"
  /\ MerchantGiven(addForm)
  /\ ~AmountParses(addForm)
  /\ ~CategoryChosen(addForm)
  /\ alerts = <<InfoAlert("Please enter a valid amount")>>
  /\ addTasks = {}

(***************************************************************************)
(* C14, as claimed: a submission is accepted only when its amount text is  *)
(* a well-formed positive decimal: digits with at most one point, and a    *)
(* value above zero.                                                       *)
(***************************************************************************)
WellFormedPositive(text) ==
  LET t == Trim(text) IN
    /\ t # <<>>
    /\ \A i \in 1..Len(t) : IsDigit(t[i]) \/ t[i] = "."
    /\ Cardinality({i \in 1..Len(t) : t[i] = "."}) <= 1
    /\ \E i \in 1..Len(t) : IsDigit(t[i])
    /\ parseFloat(t).cents > 0

C14_RejectsMalformedAmount ==
  [][/\ AddSubmitted # {} => WellFormedPositive(addForm.amount)
     /\ EditSubmitted # {} => WellFormedPositive(editForm.amount)]_vars

(***************************************************************************)
(* Vocabulary of the failure properties.                                   *)
(***************************************************************************)
DeleteWriteFailedStep(task) ==
  task \in deleteTasks /\ task \notin deleteTasks' /\ AFailure
AddFailedStep(task) ==
  task \in addTasks /\ task \notin addTasks' /\ AFailure
EditFailedStep(task) ==
  task \in editTasks /\ task \notin editTasks' /\ AFailure

\* the invocation tid has no storage call left
Over(tid) == \A task \in addTasks' \cup editTasks' \cup deleteTasks' : task.tid # tid

Balanced(list, bals) ==
  \A a \in AccountIds :
    bals[a] = IF variant = "single" THEN SumAmounts(list, Len(list))
              ELSE SumAmountsOf(list, Len(list), a)

C16_OneNoticeNoRetry ==
  [][/\ \A task \in addTasks \cup editTasks \cup deleteTasks :
          (AddFailedStep(task) \/ EditFailedStep(task) \/ DeleteWriteFailedStep(task)) =>
            /\ Len(alerts') = Len(alerts) + 1
            /\ SubSeq(alerts', 1, Len(alerts)) = alerts
            /\ store' = store
            /\ Over(task.tid)
     /\ \A task \in addTasks \cup editTasks \cup deleteTasks :
          (AddWriteDone(task) \/ EditWriteDone(task) \/ DeleteWriteDone(task)) =>
            /\ Over(task.tid)
            /\ Len(alerts') = Len(alerts) + 1
     /\ \A task \in addTasks' \cup editTasks' :
          task.pc = "write" =>
            \E before \in addTasks \cup editTasks : before.tid = task.tid
    ]_vars

\* an add has failed: its one notice is up and nothing of it is in flight
C16_Witness ==
  /\ used.fail = 1
  /\ used.ops = 1
  /\ addTasks = {} /\ editTasks = {} /\ deleteTasks = {}
  /\ alerts = <<BackAlert("Transaction created but could not be saved permanently.")>>

(***************************************************************************)
(* C17: a write replaces the persisted value by the collection computed    *)
(* from the writer's own read, whatever was written since: the records     *)
(* persisted then and not read by the writer are lost.  With two adds that *)
(* both read before either writes, both report success and the persisted   *)
(* collection holds the later writer's record alone.                       *)
(***************************************************************************)
C17_LaterWriteWins ==
  [][\A task \in addTasks :
       AddWriteDone(task) =>
         /\ PersistedNext = task.updated
         /\ \A i \in 1..Len(Persisted) :
              Persisted[i] \notin Range(task.updated) =>
                Persisted[i] \notin Range(PersistedNext)]_vars

\* two adds have reported success, one added record is persisted
C17_Witness ==
  /\ Len(alerts) = 2
  /\ alerts[1] = BackAlert("Transaction added successfully")
  /\ alerts[2] = BackAlert("Transaction added successfully")
  /\ used.fail = 0
  /\ addTasks = {}
  /\ store # None
  /\ Cardinality({i \in 1..Len(Get(store)) : Get(store)[i].id >= ClockStart}) = 1

(***************************************************************************)
(* C18, as claimed: at most one storage operation of the home screen       *)
(* (load or delete) is in flight at any time, and, while only one form has *)
(* ever been opened, at most one submission of it.                         *)
(***************************************************************************)
C18_NoOverlap ==
  /\ loadsReading + loadsSeeding + Cardinality(deleteTasks) <= 1
  /\ used.nav <= 1 => Cardinality(addTasks) <= 1 /\ Cardinality(editTasks) <= 1

(***************************************************************************)
(* C19, as claimed: the collection an add, an edit or a delete writes is   *)
(* computed from the persisted collection as read within that operation.   *)
(***************************************************************************)
C19_MutationsReadTheStore ==
  [][/\ \A task \in addTasks :
          AddReadDone(task) =>
            Successor(addTasks', task).updated = <<task.rec>> \o Persisted
     /\ \A task \in editTasks :
          EditReadDone(task) =>
            Successor(editTasks', task).updated = MapReplace(Persisted, task.rec)
     /\ \A task \in deleteTasks' \ deleteTasks :
          task.updated = FilterOutId(Persisted, task.id)
    ]_vars

(***************************************************************************)
(* C20: a toggle of the transaction type in the add or the edit form       *)
(* changes the type alone: the selected category and the other fields stay *)
(* as they were.                                                           *)
(***************************************************************************)
C20_ToggleChangesTypeOnly ==
  [][/\ (addForm.open /\ addForm'.open
           /\ addForm'.transactionType # addForm.transactionType) =>
          addForm' = [addForm EXCEPT !.transactionType = addForm'.transactionType]
     /\ (editForm.open /\ editForm'.open
           /\ editForm'.transactionType # editForm.transactionType) =>
          editForm' = [editForm EXCEPT !.transactionType = editForm'.transactionType]
    ]_vars

\* an add has stored the income category Salary's icon on a negative amount
C20_Witness ==
  /\ store # None /\ Get(store) # <<>>
  /\ Head(Get(store)).id >= ClockStart
  /\ Head(Get(store)).icon = "cash-outline"
  /\ Head(Get(store)).amount < 0

(***************************************************************************)
(* C21: while the in-memory list is the default sample set (so after       *)
(* seeding from an empty store), the multi-account home shows 2344.55 for  *)
(* chequing, the sum of the samples tagged chequing, and 525.50 for        *)
(* savings, the sum of those tagged savings; the single-account home shows *)
(* 2214.56, the sum of its five samples.                                   *)
(***************************************************************************)
C21_SeededBalances ==
  transactions = defaultTransactions =>
    IF variant = "single"
    THEN /\ Len(transactions) = 5
         /\ balances["account"] = 221456
    ELSE /\ balances["chequing"] = 234455
         /\ balances["savings"] = 52550
         /\ balances["chequing"] =
              SumAmountsOf(defaultTransactionsMulti, 6, "chequing")
         /\ balances["savings"] =
              SumAmountsOf(defaultTransactionsMulti, 6, "savings")

\* the multi-account home has just seeded the empty store, one load still reads
C21_Witness ==
  /\ variant = "multi"
  /\ store = Some(defaultTransactionsMulti)
  /\ transactions = defaultTransactionsMulti
  /\ loadsReading = 1 /\ loadsSeeding = 0
  /\ used = [nav |-> 0, ops |-> 0, fail |-> 0]

(***************************************************************************)
(* C22, as claimed: with the multi-account home, every persisted record    *)
(* has an accountId of chequing or savings.                                *)
(***************************************************************************)
C22_AccountIdOfTwo ==
  variant = "multi" =>
    \A i \in 1..Len(Persisted) : Persisted[i].accountId \in {"chequing", "savings"}

(***************************************************************************)
(* C23, as claimed: in the multi-account home every in-memory transaction, *)
(* an added one included once a load has returned it, is listed under the  *)
(* account it was added for, one of the two, and counts in that account's  *)
(* balance: the two balances add up to the sum of all in-memory amounts.   *)
(***************************************************************************)
C23_AddedShowsInAccount ==
  variant = "multi" =>
    /\ \A i \in 1..Len(transactions) :
         \E a \in {"chequing", "savings"} :
           transactions[i] \in Range(FilterAccount(transactions, a))
    /\ balances["chequing"] + balances["savings"] =
         SumAmounts(transactions, Len(transactions))

(***************************************************************************)
(* C24, as claimed: a successful deleteTransaction(id) removes no record   *)
(* of another id from the persisted collection: every record persisted     *)
(* just before the delete's write whose id differs is persisted after it.  *)
(***************************************************************************)
C24_DeleteRemovesOnlyId ==
  [][\A task \in deleteTasks :
       DeleteWriteDone(task) =>
         \A i \in 1..Len(Persisted) :
           Persisted[i].id # task.id => Persisted[i] \in Range(PersistedNext)]_vars

(***************************************************************************)
(* C25, as claimed: an edit opened on a record r whose icon belongs to a   *)
(* category of r's sign type and whose accountId is chequing or savings,   *)
(* submitted with no field changed, submits a record equal to r, and the   *)
(* write of a record equal to a persisted one leaves the persisted         *)
(* collection as it was just before the write.                             *)
(***************************************************************************)
IconOfSignType(r) ==
  \E i \in 1..Len(editCategories) :
    editCategories[i].icon = r.icon /\ editCategories[i].type = TypeOfAmount(r.amount)

RoundTrip(r) ==
  /\ editForm = EditFormInit(r)
  /\ IconOfSignType(r)
  /\ r.accountId \in {"chequing", "savings"}

SubmitsEqual ==
  \A task \in EditSubmitted :
    RoundTrip(Get(editForm.transaction)) => task.rec = Get(editForm.transaction)

C25_RoundTripKeepsPersisted ==
  [][/\ SubmitsEqual
     /\ \A task \in editTasks :
          EditWriteDone(task) /\ task.rec \in Range(Persisted) =>
            PersistedNext = Persisted]_vars

(***************************************************************************)
(* C25, amended: such a submission submits a record equal to r, and when   *)
(* its read returns a collection in which the records of r's id are equal  *)
(* to r, the collection it writes is the collection it read (the persisted *)
(* collection is unchanged when no other write came between the read and   *)
(* the write).                                                             *)
(***************************************************************************)
C25_RoundTripWritesRead ==
  [][/\ SubmitsEqual
     /\ \A task \in editTasks :
          (/\ EditReadDone(task)
           /\ \A i \in 1..Len(Persisted) :
                Persisted[i].id = task.rec.id => Persisted[i] = task.rec) =>
            Successor(editTasks', task).updated = Persisted
     /\ \A task \in editTasks :
          EditWriteDone(task) => store' = Some(task.updated)]_vars

\* in the multi-account variant an edit opened on a persisted sample and
\* submitted unchanged has been written: the store still holds that record
C25_Witness ==
  /\ variant = "multi"
  /\ screen = "edit"
  /\ editForm.transaction # None
  /\ RoundTrip(Get(editForm.transaction))
  /\ editTasks = {}
  /\ used.ops >= 1
  /\ alerts # <<>> /\ alerts[Len(alerts)] = BackAlert("Transaction updated successfully")
  /\ store # None
  /\ Get(editForm.transaction) \in Range(Get(store))

(***************************************************************************)
(* C26, as claimed: the successful write of an edit whose id is not in the *)
(* persisted collection leaves the persisted collection with the same      *)
(* records in the same order, and one success notice is raised.            *)
(***************************************************************************)
ReportsSuccess ==
  alerts' = Append(alerts, BackAlert("Transaction updated successfully"))

C26_MissingIdKeepsPersisted ==
  [][\A task \in editTasks :
       EditWriteDone(task) /\ ~HasId(Persisted, task.rec.id) =>
         /\ PersistedNext = Persisted
         /\ ReportsSuccess]_vars

(***************************************************************************)
(* C26, amended: when the read of an edit returns a collection without the *)
(* edited id, the edit writes exactly the collection it read, with no      *)
(* record inserted, and its successful write raises the success notice     *)
(* (the persisted collection keeps its records and order when no other     *)
(* write came between the read and the write).                             *)
(***************************************************************************)
C26_MissingIdWritesRead ==
  [][/\ \A task \in editTasks :
          EditReadDone(task) /\ ~HasId(Persisted, task.rec.id) =>
            /\ Successor(editTasks', task).updated = Persisted
            /\ ~HasId(Successor(editTasks', task).updated, task.rec.id)
     /\ \A task \in editTasks :
          EditWriteDone(task) => store' = Some(task.updated) /\ ReportsSuccess]_vars

\* the edit form was opened on sample 2, sample 2 was deleted from the store
\* before the edit read it, and the edit has reported success: the store is
\* the samples without sample 2
C26_Witness ==
  /\ screen = "edit"
  /\ editForm.transaction # None
  /\ Get(editForm.transaction).id = 2
  /\ alerts = <<BackAlert("Transaction updated successfully")>>
  /\ store = Some(FilterOutId(defaultTransactions, 2))
  /\ deleteTasks = {} /\ editTasks = {} /\ addTasks = {}
  /\ used.fail = 0

(***************************************************************************)
(* C27: a load that completes without failure leaves the persisted value,  *)
(* the in-memory list and the balances a function of the persisted value   *)
(* alone (the stored list, or the samples when nothing was stored), so a   *)
(* load that completes when the home already shows the outcome of a load   *)
(* changes nothing, and the two loads of mount and focus, with no mutation *)
(* in between, end as one load does: the samples persisted and shown.      *)
(***************************************************************************)
LoadOutcome(list) ==
  /\ store' = Some(list)
  /\ transactions' = list
  /\ Balanced(list, balances')

ShowsLoaded ==
  /\ store # None
  /\ transactions = Get(store)
  /\ Balanced(transactions, balances)

C27_LoadsConverge ==
  [][/\ (LoadReadSettled /\ NoFailure /\ store # None) => LoadOutcome(Get(store))
     /\ (LoadSeedSettled /\ NoFailure) => LoadOutcome(defaultTransactions)
     /\ (LoadReadSettled /\ NoFailure /\ ShowsLoaded) =>
          UNCHANGED <<store, transactions, balances>>
     /\ (LoadSeedSettled /\ NoFailure /\ ShowsLoaded /\ used.ops = 0) =>
          UNCHANGED <<store, transactions, balances>>
     /\ (used.ops = 0 /\ used.fail = 0 /\ loadsReading = 0 /\ loadsSeeding = 0) =>
          (ShowsLoaded /\ transactions = defaultTransactions)]_vars

\* both loads found nothing stored; the first has seeded and set the home, the
\* second's write of the samples is still in flight
C27_Witness ==
  /\ loadsReading = 0 /\ loadsSeeding = 1
  /\ ShowsLoaded
  /\ transactions = defaultTransactions
  /\ used = [nav |-> 0, ops |-> 0, fail |-> 0]

(***************************************************************************)
(* C30: in the multi-account home the displayed list is exactly the        *)
(* in-memory transactions whose accountId is the selected account id, in   *)
(* their in-memory order; the selected account id is always chequing or    *)
(* savings; a step that changes the selected account changes neither the   *)
(* in-memory transactions, nor a balance, nor the persisted collection.    *)
(***************************************************************************)
RECURSIVE OfAccountInOrder(_, _, _)
OfAccountInOrder(list, n, a) ==
  IF n = 0 THEN <<>>
  ELSE IF list[n].accountId = a
       THEN Append(OfAccountInOrder(list, n - 1, a), list[n])
       ELSE OfAccountInOrder(list, n - 1, a)

DisplaysSelected ==
  /\ selectedAccountId \in {"chequing", "savings"}
  /\ filteredTransactions =
       OfAccountInOrder(transactions, Len(transactions), selectedAccountId)

C30_DisplayOfSelectedAccount ==
  [][variant = "multi" =>
       /\ DisplaysSelected
       /\ DisplaysSelected'
       /\ selectedAccountId' # selectedAccountId =>
            UNCHANGED <<transactions, balances, store>>]_vars

\* savings has been selected over the seeded samples: the two savings samples
\* are listed, and the balances and the store are those of the seeding
C30_Witness ==
  /\ variant = "multi"
  /\ selectedAccountId = "savings"
  /\ transactions = defaultTransactionsMulti
  /\ Len(filteredTransactions) = 2
  /\ filteredTransactions[1].id = 5 /\ filteredTransactions[2].id = 6
  /\ balances = [chequing |-> 234455, savings |-> 52550]
  /\ store = Some(defaultTransactionsMulti)

(***************************************************************************)
(* C29: when the edit screen is opened with no transaction parameter or    *)
(* with one that does not parse, one error notice is raised and no storage *)
(* call is started; the screen then navigates back to the home screen;     *)
(* while no transaction is loaded a submit starts no storage call, raises  *)
(* no notice and changes nothing, and the store is written by no step of   *)
(* the edit screen (the read that follows is the focused home screen's).   *)
(***************************************************************************)
Unloaded == screen = "edit" /\ editForm.transaction = None

StorageCallsUnchanged ==
  /\ TasksUnchanged
  /\ UNCHANGED <<loadsReading, loadsSeeding>>

C29_UnloadedEditDoesNothing ==
  [][/\ (screen = "home" /\ Unloaded') =>
          /\ \E text \in {"No transaction to edit",
                          "Could not load transaction details"} :
               alerts' = Append(alerts, InfoAlert(text))
          /\ StorageCallsUnchanged
          /\ UNCHANGED <<store, homeVars>>
     /\ Unloaded =>
          /\ EditSubmitted = {}
          /\ screen' \in {"edit", "home"}
          /\ screen' = "edit" => editForm' = editForm
          /\ (screen' = "edit" /\ StorageCallsUnchanged) =>
               /\ alerts' = alerts \/ (alerts # <<>> /\ alerts' = Tail(alerts))
               /\ store' = store
          /\ screen' = "home" =>
               /\ TasksUnchanged
               /\ UNCHANGED <<store, homeVars, loadsSeeding>>
               /\ alerts' = alerts \/ (alerts # <<>> /\ alerts' = Tail(alerts))
               /\ loadsReading' = loadsReading + 1
    ]_vars

\* the edit screen was opened without a transaction over the seeded home: the
\* notice is up, the home screen is shown again and its focus load is reading
C29_Witness ==
  /\ screen = "home"
  /\ editForm = NoForm
  /\ alerts = <<InfoAlert("No transaction to edit")>>
  /\ loadsReading = 1 /\ loadsSeeding = 0
  /\ store = Some(defaultTransactions)
  /\ editTasks = {} /\ addTasks = {} /\ deleteTasks = {}
  /\ used = [nav |-> 1, ops |-> 0, fail |-> 0]

(***************************************************************************)
(* C28: every add, edit or delete that passed its checks and whose storage *)
(* calls return eventually has no call left, and raises exactly one        *)
(* outcome notice on the way: none when it is submitted or when its read   *)
(* returns, one when its last call settles.  The success notice is raised  *)
(* in the step in which the operation's write has taken effect, and only   *)
(* there; a failure notice is raised in a step in which a read or write of *)
(* the operation failed, and only there.                                   *)
(***************************************************************************)
SuccessNotices ==
  {BackAlert("Transaction added successfully"),
   BackAlert("Transaction updated successfully"),
   InfoAlert("Transaction deleted successfully")}

FailureNotices ==
  {BackAlert("Transaction created but could not be saved permanently."),
   BackAlert("Could not update the transaction"),
   InfoAlert("Could not delete the transaction")}

Raises(notice) == alerts' = Append(alerts, notice)

InFlight(tid) ==
  \E task \in addTasks \cup editTasks \cup deleteTasks : task.tid = tid

NoticeRaised ==
  /\ Len(alerts') = Len(alerts) + 1
  /\ SubSeq(alerts', 1, Len(alerts)) = alerts

OneOutcomeNotice ==
  /\ \A task \in addTasks :
       /\ AddWriteDone(task) =>
            store' = Some(task.updated) /\ Raises(BackAlert("Transaction added successfully"))
       /\ AddFailedStep(task) =>
            Raises(BackAlert("Transaction created but could not be saved permanently."))
       /\ AddReadDone(task) =>
            alerts' = alerts /\ Successor(addTasks', task).pc = "write"
  /\ \A task \in editTasks :
       /\ EditWriteDone(task) =>
            store' = Some(task.updated) /\ Raises(BackAlert("Transaction updated successfully"))
       /\ EditFailedStep(task) => Raises(BackAlert("Could not update the transaction"))
       /\ EditReadDone(task) =>
            alerts' = alerts /\ Successor(editTasks', task).pc = "write"
  /\ \A task \in deleteTasks :
       /\ DeleteWriteDone(task) =>
            store' = Some(task.updated) /\ Raises(InfoAlert("Transaction deleted successfully"))
       /\ DeleteWriteFailedStep(task) => Raises(InfoAlert("Could not delete the transaction"))
  /\ (AddSubmitted # {} \/ EditSubmitted # {}) => alerts' = alerts
  /\ (NoticeRaised /\ alerts'[Len(alerts')] \in SuccessNotices) =>
       /\ NoFailure
       /\ \E task \in addTasks \cup editTasks \cup deleteTasks :
            AddWriteDone(task) \/ EditWriteDone(task) \/ DeleteWriteDone(task)
  /\ (NoticeRaised /\ alerts'[Len(alerts')] \in FailureNotices) =>
       \E task \in addTasks \cup editTasks \cup deleteTasks :
         AddFailedStep(task) \/ EditFailedStep(task) \/ DeleteWriteFailedStep(task)
  /\ \A task \in addTasks' \cup editTasks' :
       task.tid <= used.ops => InFlight(task.tid)

C28_OutcomeNoticeEventually ==
  /\ [][OneOutcomeNotice]_vars
  /\ \A tid \in 1..MaxOps : InFlight(tid) ~> ~InFlight(tid)

\* two submissions of the add form overlapped: the first was written and
\* acknowledged, the second failed and raised its own notice
C28_Witness ==
  /\ used.ops = 2 /\ used.fail = 1
  /\ addTasks = {} /\ editTasks = {} /\ deleteTasks = {}
  /\ alerts = <<BackAlert("Transaction added successfully"),
                BackAlert("Transaction created but could not be saved permanently.")>>
  /\ store # None /\ Len(Get(store)) >= 1 /\ Head(Get(store)).id >= ClockStart

====
